---- MODULE Spec2Model ----
(***************************************************************************)
(* A model of the converge load / execution pipeline:                      *)
(*   - load.ResolveDependencies and its dependency generators,            *)
(*   - the user resource's Check and Apply,                                *)
(*   - node.Node value semantics,                                          *)
(*   - the bottom-up scheduler that walks the resolved graph.              *)
(***************************************************************************)
EXTENDS Naturals, Integers, Sequences, FiniteSets, TLC

(***************************************************************************)
(* Bounds of the model.                                                    *)
(***************************************************************************)
\* non-root vertices of an input graph (load family)
MaxVertices == 4
\* non-root vertices of an input graph (group family)
MaxGroupVertices == 3
\* nesting depth of a vertex below root
MaxDepth == 2
\* depends / param / lookup references of an input graph (load family)
MaxRefs == 1
\* depends references of an input graph (group family)
MaxGroupRefs == 1
\* vertices of an input graph whose value is not a *parse.Node
MaxForeign == 1
MaxCalls == 2

(***************************************************************************)
(* Strings.  A Go string is a sequence of one-character strings; the       *)
(* characters are ranked by their byte value, as sort.Strings compares.    *)
(***************************************************************************)
CharOrder == <<"-", ".", "/", "a", "b", "d", "e", "k", "l", "m", "o", "p", "r", "s", "t", "u">>

Code(c) == CHOOSE i \in DOMAIN CharOrder : CharOrder[i] = c

\* a < b in Go's string order (bytewise, a proper prefix first)
StrLess(a, b) ==
    \E i \in 1..(Len(b)) :
        /\ \A j \in 1..(i - 1) : j <= Len(a) /\ a[j] = b[j]
        /\ \/ i = Len(a) + 1
           \/ i <= Len(a) /\ Code(a[i]) < Code(b[i])

RECURSIVE Join(_)
\* the slash-separated string of a sequence of segments
Join(segs) ==
    IF Len(segs) = 0 THEN <<>>
    ELSE IF Len(segs) = 1 THEN segs[1]
    ELSE segs[1] \o <<"/">> \o Join(Tail(segs))

(***************************************************************************)
(* Vertex IDs (graph package).  An ID is the sequence of its               *)
(* slash-separated segments; "root/module.a/task.b" is                     *)
(* <<RootSeg, module.a, task.b>>.                                          *)
(***************************************************************************)
RootSeg == <<"r", "o", "o", "t">>
RootID == <<RootSeg>>
\* the string "."
DotID == << <<".">> >>
\* the string ""
EmptyID == <<>>

IDString(id) == Join(id)

IsRoot(id) == id = RootID

\* path.Dir: the ID without its last segment; "." for a single segment
ParentID(id) ==
    IF Len(id) <= 1 THEN DotID ELSE SubSeq(id, 1, Len(id) - 1)

SiblingID(id, name) ==
    IF ParentID(id) = DotID THEN <<name>> ELSE Append(ParentID(id), name)

AreSiblingIDs(a, b) == ParentID(a) = ParentID(b)

\* IDs in ascending string order
IDLess(a, b) == StrLess(IDString(a), IDString(b))

(***************************************************************************)
(* Block names.  A block `kind "name"` is the segment "kind.name".         *)
(***************************************************************************)
TaskPrefix == <<"t", "a", "s", "k", ".">>
ModulePrefix == <<"m", "o", "d", "u", "l", "e", ".">>
ParamPrefix == <<"p", "a", "r", "a", "m", ".">>

BaseNames == {<<"a">>, <<"b">>}
ParamNames == {<<"a">>}

Segs ==
    {TaskPrefix \o n : n \in BaseNames}
        \cup {ParamPrefix \o n : n \in ParamNames}
        \cup {ModulePrefix \o <<"a">>}

HasPrefix(s, p) == Len(s) >= Len(p) /\ SubSeq(s, 1, Len(p)) = p

IsModuleSeg(s) == HasPrefix(s, ModulePrefix)

Last(id) == id[Len(id)]

RECURSIVE IDsOfDepth(_)
\* the IDs the loader can create at a depth: blocks nest under modules only
IDsOfDepth(d) ==
    IF d = 0 THEN {RootID}
    ELSE {Append(p, s) : p \in {q \in IDsOfDepth(d - 1) : d = 1 \/ IsModuleSeg(Last(q))},
                         s \in Segs}

Universe == UNION {IDsOfDepth(d) : d \in 0..MaxDepth}

GroupNames == {"apt", "yum"}

VARIABLES
    verts,      \* vertex IDs of the graph handed to ResolveDependencies
    value,      \* vertex ID -> value of its node
    outEdges,   \* edges of the graph Transform builds (out / the returned g)
    visited,    \* vertices whose Transform callback has returned
    errs,       \* vertex ID -> error its callback returned
    groupMap,   \* group name -> IDs appended so far
    groupEdges, \* group name -> edges the group pass connected for it
    err,        \* error returned by Transform
    pc,         \* position in ResolveDependencies / in the run
    started,    \* vertices the scheduler has started
    finished,   \* vertices the scheduler has finished
    u,          \* the User task: its configuration
    system,     \* the target system behind SystemUtils
    called,     \* the AddUser / DelUser calls made so far
    phase,      \* which of Check, Apply, Check the user task has run
    check1,     \* result of the first Check
    applied,    \* result of Apply
    check2,     \* result of the Check after Apply
    heap,       \* address -> node.Node struct
    ptr,        \* node handle -> address it points to
    own,        \* node handle -> the attributes given through that handle, and
                \* the handle it was derived from (0: made by New)
    preparer,   \* the param Preparer: its Default field
    renderer,   \* what render.Value() returns to the param Preparer
    prepared,   \* what param Preparer.Prepare returned
    stage,      \* the scheduler's phase: Plan or Apply
    result,     \* vertex ID -> status the scheduler reported at Finished
    applyCalled, \* vertices whose task had Apply called
    xrefs       \* what getXrefs returned, and for which vertex

graphVars == <<verts, value, outEdges, visited, errs, groupMap, groupEdges, err, pc,
               started, finished>>

userVars == <<u, system, called, phase, check1, applied, check2>>

nodeVars == <<heap, ptr, own>>

paramVars == <<preparer, renderer, prepared>>

runVars == <<stage, result, applyCalled>>

vars == <<graphVars, userVars, nodeVars, paramVars, runVars, xrefs>>

(***************************************************************************)
(* Errors.                                                                 *)
(***************************************************************************)
NoError == [kind |-> "nil", arg |-> <<>>]

Error(kind, arg) == [kind |-> kind, arg |-> arg]

(***************************************************************************)
(* Graph helpers (graph package).                                          *)
(***************************************************************************)
\* g.Get(id): the vertex exists
Get(id) == id \in verts

\* the loader's containment edges: every vertex points to its parent
ContainmentEdges(V) == {<<v, ParentID(v)>> : v \in V \ {RootID}}

RECURSIVE ReachFrom(_, _, _)
\* vertices reachable from the set S over one or more edges of E
ReachFrom(E, S, seen) ==
    LET next == {e[2] : e \in {f \in E : f[1] \in S}} \ seen
    IN  IF next = {} THEN seen ELSE ReachFrom(E, next, seen \cup next)

HasPath(E, from, to) == to \in ReachFrom(E, {from}, {})

HasCycle(E) == \E e \in E : HasPath(E, e[1], e[1])

\* g.Validate(): the error of a graph with a cycle or a dangling edge
Validate(V, E) ==
    IF \E e \in E : e[1] \notin V \/ e[2] \notin V
        THEN Error("nonexistent vertices in edges", <<>>)
    ELSE IF HasCycle(E) THEN Error("cycle", <<>>)
    ELSE NoError

(***************************************************************************)
(* Dependency generators.                                                  *)
(***************************************************************************)
NotFound == [id |-> EmptyID, ok |-> FALSE]

RECURSIVE getNearestAncestor_SkipForeign(_, _)
\* getNearestAncestor that walks on past a vertex that is no parse node
getNearestAncestor_SkipForeign(id, node) ==
    IF IsRoot(id) \/ id = EmptyID \/ id = DotID THEN NotFound
    ELSE LET siblingID == SiblingID(id, node)
         IN  IF ~Get(siblingID) \/ ~value[siblingID].parse
                 THEN getNearestAncestor_SkipForeign(ParentID(id), node)
             ELSE [id |-> siblingID, ok |-> TRUE]

RECURSIVE getNearestAncestor(_, _)
getNearestAncestor(id, node) ==
    IF IsRoot(id) \/ id = EmptyID \/ id = DotID THEN NotFound
    ELSE LET siblingID == SiblingID(id, node)
         IN  IF ~Get(siblingID) THEN getNearestAncestor(ParentID(id), node)
             ELSE IF ~value[siblingID].parse THEN NotFound
             ELSE [id |-> siblingID, ok |-> TRUE]

MinOf(S) == CHOOSE i \in S : \A j \in S : i <= j

RECURSIVE SeqOfIDs(_)
\* the IDs of S as a list
SeqOfIDs(S) ==
    IF S = {} THEN <<>>
    ELSE LET x == CHOOSE y \in S : TRUE
         IN  <<x>> \o SeqOfIDs(S \ {x})

\* node.GetString("group"): a missing key is the empty group
groupName(node) ==
    IF node.group = "" THEN [group |-> "", err |-> NoError]
    ELSE IF node.group \in GroupNames THEN [group |-> node.group, err |-> NoError]
    ELSE [group |-> "", err |-> Error("failed to retrieve group from node", <<>>)]

\* getDepends that drops an entry it cannot resolve
getDepends_SkipMissing(id, node) ==
    [deps |-> SeqOfIDs({getNearestAncestor(id, node.depends[i]).id :
                            i \in {j \in DOMAIN node.depends :
                                       getNearestAncestor(id, node.depends[j]).ok}}),
     err |-> NoError]

getDepends(id, node) ==
    LET deps == node.depends
        bad == {i \in DOMAIN deps : ~getNearestAncestor(id, deps[i]).ok}
    IN  IF bad = {}
            THEN [deps |-> [i \in DOMAIN deps |-> getNearestAncestor(id, deps[i]).id],
                  err |-> NoError]
        ELSE [deps |-> <<>>,
              err |-> Error("nonexistent vertices in edges", deps[MinOf(bad)])]

getParams(id, node) ==
    LET out == node.params
        bad == {i \in DOMAIN out : ~getNearestAncestor(id, ParamPrefix \o out[i]).ok}
    IN  IF bad = {}
            THEN [deps |-> [i \in DOMAIN out |->
                               getNearestAncestor(id, ParamPrefix \o out[i]).id],
                  err |-> NoError]
        ELSE [deps |-> <<>>, err |-> Error("unknown parameter", out[MinOf(bad)])]

\* the ID a call, a path of one or more segments, names in the scope of id
CallID(id, call) ==
    IF ParentID(id) = DotID THEN call ELSE ParentID(id) \o call

RECURSIVE VertexSplitTraverse(_, _)
\* preprocessor.VertexSplitTraverse with TraverseUntilModule: climb from id,
\* probing the call at each level, and stop at a module boundary
VertexSplitTraverse(call, id) ==
    IF IsRoot(id) \/ id = EmptyID \/ id = DotID THEN NotFound
    ELSE IF Get(CallID(id, call)) THEN [id |-> CallID(id, call), ok |-> TRUE]
    ELSE IF IsModuleSeg(Last(ParentID(id))) THEN NotFound
    ELSE VertexSplitTraverse(call, ParentID(id))

\* getPeerVertex that tests the target only and does not walk up from it
getPeerVertex_TargetOnly(src, dst) ==
    IF dst = DotID \/ IsRoot(dst) THEN NotFound
    ELSE IF AreSiblingIDs(src, dst) THEN [id |-> dst, ok |-> TRUE]
    ELSE NotFound

RECURSIVE getPeerVertex(_, _)
getPeerVertex(src, dst) ==
    IF dst = DotID \/ IsRoot(dst) THEN NotFound
    ELSE IF AreSiblingIDs(src, dst) THEN [id |-> dst, ok |-> TRUE]
    ELSE getPeerVertex(src, ParentID(dst))

RECURSIVE XrefLoop(_, _, _, _)
\* the loop over calls of getXrefs: nodeRefs holds the vertices already seen
XrefLoop(id, calls, nodeRefs, out) ==
    IF calls = <<>> THEN [deps |-> out, err |-> NoError]
    ELSE LET r == VertexSplitTraverse(Head(calls), id)
         IN  IF ~r.ok
                 THEN [deps |-> <<>>,
                       err |-> Error("dependency generator: unresolvable call",
                                     IDString(Head(calls)))]
             ELSE IF r.id \in nodeRefs THEN XrefLoop(id, Tail(calls), nodeRefs, out)
             ELSE LET peer == getPeerVertex(id, r.id)
                      out1 == Append(out, r.id)
                      out2 == IF peer.ok THEN Append(out1, peer.id) ELSE out1
                  IN  XrefLoop(id, Tail(calls), nodeRefs \cup {r.id}, out2)

getXrefs(id, node) == XrefLoop(id, node.lookups, {}, <<>>)

Targets(r) == {r.deps[i] : i \in DOMAIN r.deps}

\* ConnectDeps with the ends of each edge exchanged
ConnectDeps_Reversed(id, r) == {<<r.deps[i], id>> : i \in DOMAIN r.deps}

\* out.Connect(meta.ID, dep) for each dep of a generator
ConnectDeps(id, r) == {<<id, t>> : t \in Targets(r)}

\* the function ResolveDependencies hands to Transform, at one vertex:
\* the edges it connects, the group it registers, the error it returns
ResolveVertex(id) ==
    IF IsRoot(id) THEN [edges |-> {}, group |-> "", err |-> NoError]
    ELSE IF ~value[id].parse
        THEN [edges |-> {}, group |-> "",
              err |-> Error("ResolveDependencies can only be used on Graphs of *parse.Node", <<>>)]
    ELSE LET node == value[id]
             d == getDepends(id, node)
             p == getParams(id, node)
             x == getXrefs(id, node)
             gn == groupName(node)
         IN  IF d.err # NoError THEN [edges |-> {}, group |-> "", err |-> d.err]
             ELSE IF p.err # NoError
                 THEN [edges |-> ConnectDeps(id, d), group |-> "", err |-> p.err]
             ELSE IF x.err # NoError
                 THEN [edges |-> ConnectDeps(id, d) \cup ConnectDeps(id, p),
                       group |-> "", err |-> x.err]
             ELSE [edges |-> ConnectDeps(id, d) \cup ConnectDeps(id, p) \cup ConnectDeps(id, x),
                   group |-> gn.group, err |-> gn.err]

(***************************************************************************)
(* The group pass of ResolveDependencies.                                  *)
(***************************************************************************)
RECURSIVE Insert(_, _)
Insert(s, x) ==
    IF s = <<>> THEN <<x>>
    ELSE IF IDLess(x, Head(s)) THEN <<x>> \o s
    ELSE <<Head(s)>> \o Insert(Tail(s), x)

\* the group loop without its sort: the IDs in the order they were appended
SortStrings_Unsorted(ids) == ids

RECURSIVE SortStrings(_)
\* sort.Strings(ids)
SortStrings(ids) ==
    IF ids = <<>> THEN <<>> ELSE Insert(SortStrings(Tail(ids)), Head(ids))

\* the closure groupDep: a vertex's parent, unless the parent is root
groupDep(id) == IF ~IsRoot(ParentID(id)) THEN ParentID(id) ELSE id

\* GroupEdge with from and to exchanged
GroupEdge_Reversed(from, to) ==
    IF ~AreSiblingIDs(from, to) THEN <<groupDep(to), groupDep(from)>>
    ELSE <<to, from>>

\* the edge g.Connect(from, to) the loop body connects for ids[i], i > 1
GroupEdge(from, to) ==
    IF ~AreSiblingIDs(from, to) THEN <<groupDep(from), groupDep(to)>>
    ELSE <<from, to>>

\* the edges the loop connects for one group
GroupEdgesOf(ids) ==
    LET sorted == SortStrings(ids)
    IN  {GroupEdge(sorted[i], sorted[i - 1]) : i \in 2..Len(sorted)}

\* the edges the loop connects over the whole groupMap
GroupPassEdges(gm) == UNION {GroupEdgesOf(gm[g]) : g \in DOMAIN gm}

(***************************************************************************)
(* The user resource (resource/user).                                      *)
(***************************************************************************)
StatePresent == "present"
StateAbsent == "absent"

Nil == [nil |-> TRUE]

\* the target system: SystemUtils over a set of users and a set of groups
Lookup(sys, name) ==
    IF sys.nameMode = "unsupported" THEN [user |-> Nil, err |-> "ErrUnsupported"]
    ELSE IF sys.nameMode = "error" THEN [user |-> Nil, err |-> "other"]
    ELSE IF \E r \in sys.users : r.Username = name
        THEN [user |-> CHOOSE r \in sys.users : r.Username = name, err |-> "nil"]
    ELSE [user |-> Nil, err |-> "UnknownUserError"]

LookupID(sys, uid) ==
    IF sys.idMode = "error" THEN [user |-> Nil, err |-> "other"]
    ELSE IF \E r \in sys.users : r.Uid = uid
        THEN [user |-> CHOOSE r \in sys.users : r.Uid = uid, err |-> "nil"]
    ELSE [user |-> Nil, err |-> "UnknownUserIdError"]

LookupGroupID(sys, gid) ==
    IF gid \in sys.groups THEN "nil" ELSE "UnknownGroupIdError"

\* useradd: fails on a taken name or uid, or on a missing group
AddUserError(sys, name, opts) ==
    IF /\ sys.mutOK
       /\ \A r \in sys.users : r.Username # name
       /\ "uid" \in DOMAIN opts => \A r \in sys.users : r.Uid # opts["uid"]
       /\ "gid" \in DOMAIN opts => opts["gid"] \in sys.groups
        THEN "nil"
    ELSE "useradd failed"

\* the system after a successful AddUser; fresh is the uid the system picks
AddUserEffect(sys, name, opts, fresh) ==
    [sys EXCEPT !.users = @ \cup
        {[Username |-> name,
          Uid |-> IF "uid" \in DOMAIN opts THEN opts["uid"] ELSE fresh,
          Name |-> IF "comment" \in DOMAIN opts THEN opts["comment"] ELSE ""]}]

DelUserError(sys, name) ==
    IF sys.mutOK /\ \E r \in sys.users : r.Username = name THEN "nil"
    ELSE "userdel failed"

DelUserEffect(sys, name) ==
    [sys EXCEPT !.users = {r \in @ : r.Username # name}]

\* resource.Status and its methods
NewStatus ==
    [WarningLevel |-> "NoChange", Output |-> <<>>, Differences |-> <<>>,
     WillChange |-> FALSE]

SetLevel(st, level) == [st EXCEPT !.WarningLevel = level]

AddOutput(st, msg) == [st EXCEPT !.Output = Append(@, msg)]

AddDifference(st, name, original, current) ==
    [st EXCEPT !.Differences =
        [k \in DOMAIN @ \cup {name} |->
            IF k = name THEN [Original |-> original, Current |-> current] ELSE @[k]]]

SetWillChange(st) == [st EXCEPT !.WillChange = TRUE]

FatalStatus(msg) == AddOutput(SetLevel(NewStatus, "Fatal"), msg)

\* what a call returns: a status and an error, or a nil-pointer panic
Return(st, e) == [panic |-> FALSE, status |-> st, err |-> e]
Panic == [panic |-> TRUE, status |-> NewStatus, err |-> "nil"]

\* the case `userByName != nil && userByID != nil &&
\*   userByName.Name != userByID.Name || userByName.Uid != userByID.Uid`:
\* "panic" when the right operand of || dereferences a nil record
DifferentUsers(a, b) ==
    IF a # Nil /\ b # Nil /\ a.Name # b.Name THEN "true"
    ELSE IF a = Nil \/ b = Nil THEN "panic"
    ELSE IF a.Uid # b.Uid THEN "true"
    ELSE "false"

\* the case `userByName != nil && userByID != nil && *userByName == *userByID`
SameUser(a, b) == a # Nil /\ b # Nil /\ a = b

\* WillAdd with the two sides of the difference exchanged
WillAdd_SwappedDiff(msg, current) ==
    [WarningLevel |-> "WillChange", Output |-> <<msg>>,
     Differences |-> [k \in {"user"} |-> [Original |-> current, Current |-> <<StateAbsent>>]],
     WillChange |-> TRUE]

\* the status of Check when a user is to be added
WillAdd(msg, current) ==
    SetWillChange(AddDifference(AddOutput(SetLevel(NewStatus, "WillChange"), msg),
                                "user", <<StateAbsent>>, current))

\* the status of Check when a user is to be deleted
WillDelete(original) ==
    AddDifference(SetWillChange(SetLevel(NewStatus, "WillChange")),
                  "user", original, <<StateAbsent>>)

CheckPresent(cfg, sys, byName, byID) ==
    LET nameNotFound == byName.err = "UnknownUserError"
        uidNotFound == byID.err = "UnknownUserIdError"
        gidMissing == cfg.GID # "" /\ LookupGroupID(sys, cfg.GID) # "nil"
    IN  IF cfg.UID = "" THEN
            IF byName.user # Nil
                THEN Return(FatalStatus(<<"user %s already exists", cfg.Username>>), "nil")
            ELSE IF nameNotFound THEN
                IF gidMissing
                    THEN Return(FatalStatus(<<"group gid %s does not exist", cfg.GID>>),
                                "will not add user")
                ELSE Return(WillAdd(<<"user does not exist">>, <<"user", cfg.Username>>), "nil")
            ELSE Return(NewStatus, "nil")
        ELSE
            IF nameNotFound /\ uidNotFound THEN
                IF gidMissing
                    THEN Return(FatalStatus(<<"group gid %s does not exist", cfg.GID>>),
                                "will not add user with uid")
                ELSE Return(WillAdd(<<"user name and uid do not exist">>,
                                    <<"user", cfg.Username, "with uid", cfg.UID>>), "nil")
            ELSE IF nameNotFound
                THEN Return(FatalStatus(<<"user uid %s already exists", cfg.UID>>), "nil")
            ELSE IF uidNotFound
                THEN Return(FatalStatus(<<"user %s already exists", cfg.Username>>), "nil")
            ELSE IF DifferentUsers(byName.user, byID.user) = "panic" THEN Panic
            ELSE IF DifferentUsers(byName.user, byID.user) = "true"
                THEN Return(FatalStatus(<<"user %s and uid %s belong to different users",
                                          cfg.Username, cfg.UID>>), "nil")
            ELSE IF SameUser(byName.user, byID.user) THEN Return(NewStatus, "nil")
            ELSE Return(NewStatus, "nil")

CheckAbsent(cfg, sys, byName, byID) ==
    LET nameNotFound == byName.err = "UnknownUserError"
        uidNotFound == byID.err = "UnknownUserIdError"
    IN  IF cfg.UID = "" THEN
            IF nameNotFound
                THEN Return(FatalStatus(<<"user %s does not exist", cfg.Username>>), "nil")
            ELSE IF byName.user # Nil
                THEN Return(WillDelete(<<"user", cfg.Username>>), "nil")
            ELSE Return(NewStatus, "nil")
        ELSE
            IF nameNotFound /\ uidNotFound
                THEN Return(AddOutput(NewStatus, <<"user name and uid do not exist">>), "nil")
            ELSE IF nameNotFound
                THEN Return(FatalStatus(<<"user %s does not exist", cfg.Username>>), "nil")
            ELSE IF uidNotFound
                THEN Return(FatalStatus(<<"user uid %s does not exist", cfg.UID>>), "nil")
            ELSE IF DifferentUsers(byName.user, byID.user) = "panic" THEN Panic
            ELSE IF DifferentUsers(byName.user, byID.user) = "true"
                THEN Return(FatalStatus(<<"user %s and uid %s belong to different users",
                                          cfg.Username, cfg.UID>>), "nil")
            ELSE IF SameUser(byName.user, byID.user)
                THEN Return(WillDelete(<<"user", cfg.Username, "with uid", cfg.UID>>), "nil")
            ELSE Return(NewStatus, "nil")

\* (*User).Check
Check(cfg, sys) ==
    LET byName == Lookup(sys, cfg.Username)
        byID == IF cfg.UID # "" THEN LookupID(sys, cfg.UID) ELSE [user |-> Nil, err |-> "nil"]
    IN  IF byName.err = "ErrUnsupported"
            THEN Return(SetLevel(NewStatus, "Fatal"), "ErrUnsupported")
        ELSE IF cfg.State = StatePresent THEN CheckPresent(cfg, sys, byName, byID)
        ELSE IF cfg.State = StateAbsent THEN CheckAbsent(cfg, sys, byName, byID)
        ELSE Return(SetLevel(NewStatus, "Fatal"), "user: unrecognized state")

\* a call of a SystemUtils method that reads the system
Query(op, arg) == [op |-> op, arg |-> arg]

\* the calls of Check, with an AddUser when it finds the user is to be added
CheckCalls_AddsUser(cfg, sys) ==
    <<Query("Lookup", cfg.Username)>>
    \o (IF cfg.State = StatePresent /\ Lookup(sys, cfg.Username).err = "UnknownUserError"
            THEN <<[op |-> "AddUser", name |-> cfg.Username,
                    opts |-> [k \in {} |-> ""]]>>
        ELSE <<>>)

\* the SystemUtils calls Check makes, in order
CheckCalls(cfg, sys) ==
    LET byName == Lookup(sys, cfg.Username)
        byID == IF cfg.UID # "" THEN LookupID(sys, cfg.UID) ELSE [user |-> Nil, err |-> "nil"]
        nameNotFound == byName.err = "UnknownUserError"
        uidNotFound == byID.err = "UnknownUserIdError"
        toAdd == IF cfg.UID = "" THEN byName.user = Nil /\ nameNotFound
                 ELSE nameNotFound /\ uidNotFound
    IN  <<Query("Lookup", cfg.Username)>>
        \o (IF cfg.UID # "" THEN <<Query("LookupID", cfg.UID)>> ELSE <<>>)
        \o (IF /\ byName.err # "ErrUnsupported"
               /\ cfg.State = StatePresent
               /\ toAdd
               /\ cfg.GID # ""
                THEN <<Query("LookupGroupID", cfg.GID)>>
            ELSE <<>>)

\* the calls among these that change the system
Mutating(calls) == SelectSeq(calls, LAMBDA c : c.op \in {"AddUser", "DelUser"})

SetUserAddOptions(cfg) ==
    [k \in {k \in {"uid", "gid", "comment", "directory"} :
                \/ k = "uid" /\ cfg.UID # ""
                \/ k = "gid" /\ cfg.GID # ""
                \/ k = "comment" /\ cfg.Name # ""
                \/ k = "directory" /\ cfg.HomeDir # ""} |->
        IF k = "uid" THEN cfg.UID
        ELSE IF k = "gid" THEN cfg.GID
        ELSE IF k = "comment" THEN cfg.Name
        ELSE cfg.HomeDir]

\* what Apply returns, the calls it makes and the system it leaves
Applied(st, e, cs, sys) ==
    [panic |-> FALSE, status |-> st, err |-> e, calls |-> cs, system |-> sys]

\* ApplyAdd that returns the error of AddUser without setting the level
ApplyAdd_ErrorNotFatal(cfg, sys, fresh, msg) ==
    LET opts == SetUserAddOptions(cfg)
        call == [op |-> "AddUser", name |-> cfg.Username, opts |-> opts]
        e == AddUserError(sys, cfg.Username, opts)
    IN  IF e # "nil"
            THEN Applied(AddOutput(NewStatus, <<"error adding", msg>>), e, <<call>>, sys)
        ELSE Applied(AddOutput(NewStatus, <<"added", msg>>), "nil", <<call>>,
                     AddUserEffect(sys, cfg.Username, opts, fresh))

\* the branch of Apply that calls AddUser
ApplyAdd(cfg, sys, fresh, msg) ==
    LET opts == SetUserAddOptions(cfg)
        call == [op |-> "AddUser", name |-> cfg.Username, opts |-> opts]
        e == AddUserError(sys, cfg.Username, opts)
    IN  IF e # "nil"
            THEN Applied(FatalStatus(<<"error adding", msg>>), e, <<call>>, sys)
        ELSE Applied(AddOutput(NewStatus, <<"added", msg>>), "nil", <<call>>,
                     AddUserEffect(sys, cfg.Username, opts, fresh))

\* the branch of Apply that calls DelUser
ApplyDel(cfg, sys, msg) ==
    LET call == [op |-> "DelUser", name |-> cfg.Username]
        e == DelUserError(sys, cfg.Username)
    IN  IF e # "nil"
            THEN Applied(FatalStatus(<<"error deleting", msg>>), e, <<call>>, sys)
        ELSE Applied(AddOutput(NewStatus, <<"deleted", msg>>), "nil", <<call>>,
                     DelUserEffect(sys, cfg.Username))

\* (*User).Apply
Apply(cfg, sys, fresh) ==
    LET byName == Lookup(sys, cfg.Username)
        byID == IF cfg.UID # "" THEN LookupID(sys, cfg.UID) ELSE [user |-> Nil, err |-> "nil"]
        nameNotFound == byName.err = "UnknownUserError"
        uidNotFound == byID.err = "UnknownUserIdError"
        refuse(e) == Applied(SetLevel(NewStatus, "Fatal"), e, <<>>, sys)
    IN  IF byName.err = "ErrUnsupported" THEN refuse("ErrUnsupported")
        ELSE IF cfg.State = StatePresent THEN
            IF cfg.UID = "" THEN
                IF nameNotFound THEN ApplyAdd(cfg, sys, fresh, <<"user", cfg.Username>>)
                ELSE refuse("will not attempt add: user")
            ELSE
                IF nameNotFound /\ uidNotFound
                    THEN ApplyAdd(cfg, sys, fresh,
                                  <<"user", cfg.Username, "with uid", cfg.UID>>)
                ELSE refuse("will not attempt add: user with uid")
        ELSE IF cfg.State = StateAbsent THEN
            IF cfg.UID = "" THEN
                IF ~nameNotFound /\ byName.user # Nil
                    THEN ApplyDel(cfg, sys, <<"user", cfg.Username>>)
                ELSE refuse("will not attempt delete: user")
            ELSE
                IF /\ ~nameNotFound
                   /\ ~uidNotFound
                   /\ SameUser(byName.user, byID.user)
                    THEN ApplyDel(cfg, sys, <<"user", cfg.Username, "with uid", cfg.UID>>)
                ELSE refuse("will not attempt delete: user with uid")
        ELSE refuse("user: unrecognized state")

\* the user task is not part of the run
UserIdle ==
    /\ u = Nil
    /\ system = Nil
    /\ called = <<>>
    /\ phase = "idle"
    /\ check1 = Nil
    /\ applied = Nil
    /\ check2 = Nil

Usernames == {"u", "v"}
Uids == {"1", "2"}
\* the uids the system may give a user added without one
UidSpace == {"1", "2", "3"}
Gids == {"10"}

\* the configurations of the task
Configs ==
    [Username : {"u"}, UID : {"", "1"}, GID : {""} \cup Gids, Name : {""}, HomeDir : {""},
     State : {StatePresent, StateAbsent, "bogus"}]

\* the user databases: names and uids are unique
UserSets ==
    {S \in SUBSET [Username : Usernames, Uid : Uids, Name : {""}] :
        \A r1, r2 \in S : (r1.Username = r2.Username \/ r1.Uid = r2.Uid) => r1 = r2}

Systems ==
    [users : UserSets, groups : SUBSET Gids, nameMode : {"ok", "unsupported", "error"},
     idMode : {"ok", "error"}, mutOK : BOOLEAN]

FreeUids(sys) == UidSpace \ {r.Uid : r \in sys.users}

\* the system after one call
Effect(sys, call) ==
    IF call.op = "AddUser" THEN
        IF AddUserError(sys, call.name, call.opts) = "nil" /\ FreeUids(sys) # {}
            THEN AddUserEffect(sys, call.name, call.opts, CHOOSE f \in FreeUids(sys) : TRUE)
        ELSE sys
    ELSE IF call.op = "DelUser" THEN
        IF DelUserError(sys, call.name) = "nil" THEN DelUserEffect(sys, call.name) ELSE sys
    ELSE sys

RECURSIVE SystemAfter(_, _)
\* the system after a list of calls
SystemAfter(sys, calls) ==
    IF calls = <<>> THEN sys ELSE SystemAfter(Effect(sys, Head(calls)), Tail(calls))

(***************************************************************************)
(* param.Preparer (resource/param): values are interface{} values decoded  *)
(* from HCL; HclNil is the nil interface.                                  *)
(***************************************************************************)
HclNil == [kind |-> "nil", s |-> "", n |-> 0]
HclString(x) == [kind |-> "string", s |-> x, n |-> 0]
HclNumber(i) == [kind |-> "int", s |-> "", n |-> i]
HclList == [kind |-> "list", s |-> "", n |-> 0]

HclValues == {HclNil, HclString(""), HclString("x"), HclNumber(0), HclNumber(1), HclList}

\* the zero values of the types a param can hold
IsZeroValue(v) == v \in {HclNil, HclString(""), HclNumber(0)}

\* &Param{Val: v}, and the nil task
Param(v) == [isNil |-> FALSE, Val |-> v]
NilTask == [isNil |-> TRUE, Val |-> HclNil]

\* Prepare that takes a zero value, at the call site or as Default, for no value
Prepare_ZeroIsUnset(p, render) ==
    IF render.present /\ ~IsZeroValue(render.val)
        THEN [task |-> Param(render.val), err |-> "nil"]
    ELSE IF IsZeroValue(p.Default)
        THEN [task |-> NilTask, err |-> "param is required"]
    ELSE [task |-> Param(p.Default), err |-> "nil"]

\* (p *Preparer) Prepare(render)
Prepare(p, render) ==
    IF render.present
        THEN [task |-> Param(render.val), err |-> "nil"]
    ELSE IF p.Default = HclNil
        THEN [task |-> NilTask, err |-> "param is required"]
    ELSE [task |-> Param(p.Default), err |-> "nil"]

NotPrepared == [task |-> NilTask, err |-> "not called"]

\* no Plan or Apply run is under way
RunIdle ==
    /\ stage = "none"
    /\ result = <<>>
    /\ applyCalled = {}

\* getXrefs has not been called on its own
NoXrefs == [at |-> <<>>, deps |-> <<>>, err |-> [kind |-> "not called", arg |-> <<>>]]

ParamIdle ==
    /\ preparer = [Default |-> HclNil]
    /\ renderer = [val |-> HclNil, present |-> FALSE]
    /\ prepared = NotPrepared

(***************************************************************************)
(* node.Node (graph/node): handles are *Node pointers into a heap.         *)
(***************************************************************************)
MaxNodes == 3

NodeIDs == {"test", "other"}

IntValue(i) == [kind |-> "int", val |-> i, group |-> ""]
Groupable(g) == [kind |-> "groupable", val |-> 0, group |-> g]

NodeValues == {IntValue(1), IntValue(2), Groupable("somegroup"), Groupable("")}

\* the group a value reports: Group() of a Groupable, when non-empty
GroupOf(v) == IF v.kind = "groupable" /\ v.group # "" THEN v.group ELSE ""

NodeIdle ==
    /\ heap = <<>>
    /\ ptr = <<>>
    /\ own = <<>>

\* the node a handle points to
Deref(h) == heap[ptr[h]]

\* node.New: a fresh struct; the heap with it at the end
NewNode(hp, id, v) == Append(hp, [ID |-> id, value |-> v, Group |-> GroupOf(v)])

\* WithValue that sets the value in place and returns the same pointer
WithValueAlloc_InPlace(hp, a, v) ==
    [heap |-> [hp EXCEPT ![a].value = v, ![a].Group = GroupOf(v)], addr |-> a]

\* WithValue that copies the struct and sets Group only for a value that
\* reports a group
WithValueAlloc_KeepGroup(hp, a, v) ==
    [heap |-> Append(hp, [hp[a] EXCEPT !.value = v,
                                       !.Group = IF GroupOf(v) # "" THEN GroupOf(v)
                                                 ELSE hp[a].Group]),
     addr |-> Len(hp) + 1]

\* n.WithValue(v): [heap, addr] with the copy of the struct at address a
WithValueAlloc(hp, a, v) ==
    [heap |-> Append(hp, [hp[a] EXCEPT !.value = v, !.Group = GroupOf(v)]),
     addr |-> Len(hp) + 1]

New(id, v) ==
    /\ Len(ptr) < MaxNodes
    /\ heap' = NewNode(heap, id, v)
    /\ ptr' = Append(ptr, Len(heap) + 1)
    /\ own' = Append(own, [attrs |-> [ID |-> id, value |-> v, Group |-> GroupOf(v)],
                            from |-> 0])
    /\ UNCHANGED <<graphVars, userVars, paramVars, runVars, xrefs>>

WithValue(h, v) ==
    /\ Len(ptr) < MaxNodes
    /\ h \in DOMAIN ptr
    /\ LET r == WithValueAlloc(heap, ptr[h], v)
       IN  /\ heap' = r.heap
           /\ ptr' = Append(ptr, r.addr)
    /\ own' = Append(own, [attrs |-> [ID |-> Deref(h).ID, value |-> v,
                                       Group |-> GroupOf(v)],
                            from |-> h])
    /\ UNCHANGED <<graphVars, userVars, paramVars, runVars, xrefs>>

\* the assignment n.ID = id through handle h
SetID(h, id) ==
    /\ h \in DOMAIN ptr
    /\ heap' = [heap EXCEPT ![ptr[h]].ID = id]
    /\ own' = [own EXCEPT ![h].attrs.ID = id]
    /\ UNCHANGED <<ptr, graphVars, userVars, paramVars, runVars, xrefs>>

\* the assignment n.Group = g through handle h
SetGroup(h, g) ==
    /\ h \in DOMAIN ptr
    /\ heap' = [heap EXCEPT ![ptr[h]].Group = g]
    /\ own' = [own EXCEPT ![h].attrs.Group = g]
    /\ UNCHANGED <<ptr, graphVars, userVars, paramVars, runVars, xrefs>>

(***************************************************************************)
(* Input graphs: what the loader hands to ResolveDependencies.             *)
(***************************************************************************)
\* the vertex sets of at most k vertices in which every vertex has its parent
Trees(k) ==
    {V \in SUBSET (Universe \ {RootID}) :
        /\ Cardinality(V) <= k
        /\ \A v \in V : ParentID(v) \in V \cup {RootID}}

RECURSIVE SubsetsUpTo(_, _)
\* the subsets of S with at most k elements
SubsetsUpTo(S, k) ==
    IF k = 0 THEN {{}}
    ELSE LET P == SubsetsUpTo(S, k - 1)
         IN  P \cup {p \cup {x} : p \in P, x \in S}

RECURSIVE SeqOf(_)
\* the strings of S as a list
SeqOf(S) ==
    IF S = {} THEN <<>>
    ELSE LET x == CHOOSE y \in S : \A z \in S : y = z \/ StrLess(y, z)
         IN  <<x>> \o SeqOf(S \ {x})

DependsAtoms(V) == {<<v, "depends", n>> : v \in V, n \in Segs}
ParamAtoms(V) == {<<v, "param", n>> : v \in V, n \in ParamNames}
LookupAtoms(V) == {<<v, "lookup", n>> : v \in V, n \in Segs}

RefsOf(R, v, kind) == SeqOf({a[3] : a \in {b \in R : b[1] = v /\ b[2] = kind}})

\* lookup calls of one segment each
Calls(names) == [i \in DOMAIN names |-> <<names[i]>>]

ForeignValue == [parse |-> FALSE]

ParseNode(group, depends, params, lookups) ==
    [parse |-> TRUE, group |-> group, depends |-> depends, params |-> params,
     lookups |-> lookups]

\* the values of a graph with references R, groups grp and foreign vertices F
Values(V, R, grp, F) ==
    [v \in V \cup {RootID} |->
        IF v \in F THEN ForeignValue
        ELSE IF v = RootID THEN ParseNode("", <<>>, <<>>, <<>>)
        ELSE ParseNode(grp[v], RefsOf(R, v, "depends"), RefsOf(R, v, "param"),
                       Calls(RefsOf(R, v, "lookup")))]

InitRun(V, vals) ==
    /\ verts = V \cup {RootID}
    /\ value = vals
    /\ outEdges = ContainmentEdges(V)
    /\ visited = {}
    /\ errs = {}
    /\ groupMap = <<>>
    /\ groupEdges = <<>>
    /\ err = NoError
    /\ pc = "transform"
    /\ started = {}
    /\ finished = {}
    /\ UserIdle
    /\ NodeIdle
    /\ ParamIdle
    /\ RunIdle
    /\ xrefs = NoXrefs

\* graphs with any grouping of their vertices and few depends entries
Init ==
    \E V \in Trees(MaxGroupVertices) :
        \E grp \in [V -> GroupNames \cup {""}], R \in SubsetsUpTo(DependsAtoms(V), MaxGroupRefs) :
            InitRun(V, Values(V, R, grp, {}))

\* graphs with references of every kind and foreign values, without groups
InitLoad ==
    \E V \in Trees(MaxVertices) :
        \E R \in SubsetsUpTo(DependsAtoms(V) \cup ParamAtoms(V) \cup LookupAtoms(V), MaxRefs),
           F \in SubsetsUpTo(V, MaxForeign) :
            InitRun(V, Values(V, R, [v \in V |-> ""], F))

(***************************************************************************)
(* ResolveDependencies.                                                    *)
(***************************************************************************)
\* Visit without the lock: an append that started from the empty list, before
\* other workers appended, loses their IDs
Visit_Unlocked(v) ==
    /\ pc = "transform"
    /\ v \in verts \ visited
    /\ LET r == ResolveVertex(v)
       IN  /\ outEdges' = outEdges \cup r.edges
           /\ errs' = IF r.err # NoError THEN errs \cup {[id |-> v, err |-> r.err]} ELSE errs
           /\ \E stale \in BOOLEAN :
                groupMap' =
                    IF r.group = "" THEN groupMap
                    ELSE IF r.group \in DOMAIN groupMap
                        THEN [groupMap EXCEPT ![r.group] =
                                Append(IF stale THEN <<>> ELSE @, v)]
                    ELSE groupMap @@ (r.group :> <<v>>)
    /\ visited' = visited \cup {v}
    /\ UNCHANGED <<verts, value, groupEdges, err, pc, started, finished,
                   userVars, nodeVars, paramVars, runVars, xrefs>>

\* one Transform worker runs the function at vertex v
Visit(v) ==
    /\ pc = "transform"
    /\ v \in verts \ visited
    /\ LET r == ResolveVertex(v)
       IN  /\ outEdges' = outEdges \cup r.edges
           /\ errs' = IF r.err # NoError THEN errs \cup {[id |-> v, err |-> r.err]} ELSE errs
           /\ groupMap' =
                IF r.group = "" THEN groupMap
                ELSE IF r.group \in DOMAIN groupMap
                    THEN [groupMap EXCEPT ![r.group] = Append(@, v)]
                ELSE groupMap @@ (r.group :> <<v>>)
    /\ visited' = visited \cup {v}
    /\ UNCHANGED <<verts, value, groupEdges, err, pc, started, finished,
                   userVars, nodeVars, paramVars, runVars, xrefs>>

\* the error Transform reports: that of the lowest failed vertex, else Validate's
TransformError ==
    IF errs # {}
        THEN (CHOOSE e \in errs : \A f \in errs : e.id = f.id \/ IDLess(e.id, f.id)).err
    ELSE Validate(verts, outEdges)

\* Transform returns: every worker is done, or one has failed
TransformDone ==
    /\ pc = "transform"
    /\ visited = verts \/ errs # {}
    /\ err' = TransformError
    /\ pc' = "groups"
    /\ UNCHANGED <<verts, value, outEdges, visited, errs, groupMap, groupEdges,
                   started, finished, userVars, nodeVars, paramVars, runVars, xrefs>>

\* GroupPass that moves a member under its predecessor: the edge to the
\* predecessor replaces the edges the vertex had
GroupPass_Rewire ==
    /\ pc = "groups"
    /\ groupEdges' = [g \in DOMAIN groupMap |-> GroupEdgesOf(groupMap[g])]
    /\ outEdges' = {e \in outEdges : \A f \in GroupPassEdges(groupMap) : e[1] # f[1]}
                        \cup GroupPassEdges(groupMap)
    /\ pc' = "returned"
    /\ UNCHANGED <<verts, value, visited, errs, groupMap, err, started, finished,
                   userVars, nodeVars, paramVars, runVars, xrefs>>

\* the loop over groupMap, and the return
GroupPass ==
    /\ pc = "groups"
    /\ groupEdges' = [g \in DOMAIN groupMap |-> GroupEdgesOf(groupMap[g])]
    /\ outEdges' = outEdges \cup GroupPassEdges(groupMap)
    /\ pc' = "returned"
    /\ UNCHANGED <<verts, value, visited, errs, groupMap, err, started, finished,
                   userVars, nodeVars, paramVars, runVars, xrefs>>

(***************************************************************************)
(* The scheduler: a vertex starts once every out-edge target has finished. *)
(***************************************************************************)
\* Eligible that waits for the parent of a vertex only
Eligible_ParentOnly(v) ==
    /\ v \notin started
    /\ IsRoot(v) \/ ParentID(v) \in finished

Eligible(v) ==
    /\ v \notin started
    /\ \A e \in outEdges : e[1] = v => e[2] \in finished

Start(v) ==
    /\ pc = "returned"
    /\ err = NoError
    /\ v \in verts
    /\ Eligible(v)
    /\ started' = started \cup {v}
    /\ UNCHANGED <<verts, value, outEdges, visited, errs, groupMap, groupEdges, err,
                   pc, finished, userVars, nodeVars, paramVars, runVars, xrefs>>

Finish(v) ==
    /\ pc = "returned"
    /\ v \in started \ finished
    /\ finished' = finished \cup {v}
    /\ UNCHANGED <<verts, value, outEdges, visited, errs, groupMap, groupEdges, err,
                   pc, started, userVars, nodeVars, paramVars, runVars, xrefs>>

NextLoad ==
    \/ \E v \in Universe : Visit(v)
    \/ TransformDone
    \/ GroupPass

Next ==
    \/ \E v \in Universe : Visit(v)
    \/ TransformDone
    \/ GroupPass
    \/ \E v \in Universe : Start(v)
    \/ \E v \in Universe : Finish(v)

Spec == Init /\ [][Next]_vars

SpecLoad == InitLoad /\ [][NextLoad]_vars

\* no graph is being resolved
GraphIdle ==
    /\ verts = {}
    /\ value = <<>>
    /\ outEdges = {}
    /\ visited = {}
    /\ errs = {}
    /\ groupMap = <<>>
    /\ groupEdges = <<>>
    /\ err = NoError
    /\ pc = "idle"
    /\ started = {}
    /\ finished = {}

(***************************************************************************)
(* The user task run as Check, Apply, Check.                               *)
(***************************************************************************)
InitUser ==
    /\ GraphIdle
    /\ NodeIdle
    /\ ParamIdle
    /\ RunIdle
    /\ xrefs = NoXrefs
    /\ u \in Configs
    /\ system \in Systems
    /\ called = <<>>
    /\ phase = "start"
    /\ check1 = Nil
    /\ applied = Nil
    /\ check2 = Nil

DoCheck ==
    /\ phase = "start"
    /\ check1' = Check(u, system)
    /\ system' = SystemAfter(system, CheckCalls(u, system))
    /\ called' = called \o Mutating(CheckCalls(u, system))
    /\ phase' = "checked"
    /\ UNCHANGED <<u, applied, check2, graphVars, nodeVars, paramVars, runVars, xrefs>>

DoApply ==
    /\ phase = "start" \/ (phase = "checked" /\ ~check1.panic)
    /\ \E fresh \in FreeUids(system) :
        LET r == Apply(u, system, fresh)
        IN  /\ applied' = [status |-> r.status, err |-> r.err, calls |-> r.calls,
                           before |-> system]
            /\ called' = called \o r.calls
            /\ system' = r.system
    /\ phase' = IF phase = "start" THEN "applied" ELSE "checked-applied"
    /\ UNCHANGED <<u, check1, check2, graphVars, nodeVars, paramVars, runVars, xrefs>>

DoRecheck ==
    /\ phase \in {"applied", "checked-applied"}
    /\ check2' = Check(u, system)
    /\ system' = SystemAfter(system, CheckCalls(u, system))
    /\ called' = called \o Mutating(CheckCalls(u, system))
    /\ phase' = "rechecked"
    /\ UNCHANGED <<u, check1, applied, graphVars, nodeVars, paramVars, runVars, xrefs>>

NextUser == DoCheck \/ DoApply \/ DoRecheck

SpecUser == InitUser /\ [][NextUser]_vars

(***************************************************************************)
(* Nodes created, derived and assigned to.                                 *)
(***************************************************************************)
InitNode ==
    /\ GraphIdle
    /\ UserIdle
    /\ NodeIdle
    /\ ParamIdle
    /\ RunIdle
    /\ xrefs = NoXrefs

NextNode ==
    \/ \E id \in NodeIDs, v \in NodeValues : New(id, v)
    \/ \E h \in 1..MaxNodes, v \in NodeValues : WithValue(h, v)
    \/ \E h \in 1..MaxNodes, id \in NodeIDs : SetID(h, id)
    \/ \E h \in 1..MaxNodes, g \in {"", "somegroup"} : SetGroup(h, g)

SpecNode == InitNode /\ [][NextNode]_vars

(***************************************************************************)
(* A param block is prepared: any Default, any answer of the renderer.     *)
(***************************************************************************)
InitParam ==
    /\ GraphIdle
    /\ UserIdle
    /\ NodeIdle
    /\ RunIdle
    /\ xrefs = NoXrefs
    /\ preparer \in [Default : HclValues]
    /\ renderer \in [val : HclValues, present : BOOLEAN]
    /\ prepared = NotPrepared

DoPrepare ==
    /\ prepared = NotPrepared
    /\ prepared' = Prepare(preparer, renderer)
    /\ UNCHANGED <<preparer, renderer, graphVars, userVars, nodeVars, runVars, xrefs>>

NextParam == DoPrepare

SpecParam == InitParam /\ [][NextParam]_vars

(***************************************************************************)
(* A Plan or Apply run over a resolved graph: every vertex waits for its   *)
(* out-edge targets, is skipped when one of them failed, and otherwise has *)
(* its task checked (and applied, in an Apply run that finds a change).    *)
(***************************************************************************)
Stages == {"Plan", "Apply"}

\* what a task's Check can report: a warning level with a nil error, or an error
CheckOutcomes == {"NoChange", "WillChange", "Fatal", "Error"}

\* the group of the tasks of a run (a second group of so few vertices has
\* one member and adds no edge)
RunGroups == {"apt"}

\* the edges ResolveDependencies returns for the graph in verts and value
ResolvedEdges(gm) ==
    ContainmentEdges(verts) \cup UNION {ResolveVertex(v).edges : v \in verts}
        \cup GroupPassEdges(gm)

\* the graphs of Init after a ResolveDependencies without error, as far as
\* they pass Validate
InitSched ==
    /\ \E V \in Trees(MaxGroupVertices) :
        \E grp \in [V -> RunGroups \cup {""}],
           R \in SubsetsUpTo(DependsAtoms(V), MaxGroupRefs) :
            /\ verts = V \cup {RootID}
            /\ value = Values(V, R, grp, {})
            /\ groupMap = [g \in {grp[v] : v \in V} \ {""} |->
                                SeqOfIDs({v \in V : grp[v] = g})]
    /\ \A v \in verts : ResolveVertex(v).err = NoError
    /\ visited = verts
    /\ errs = {}
    /\ groupEdges = [g \in DOMAIN groupMap |-> GroupEdgesOf(groupMap[g])]
    /\ outEdges = ResolvedEdges(groupMap)
    /\ Validate(verts, outEdges) = NoError
    /\ err = NoError
    /\ pc = "returned"
    /\ started = {}
    /\ finished = {}
    /\ stage \in Stages
    /\ result = <<>>
    /\ applyCalled = {}
    /\ xrefs = NoXrefs
    /\ UserIdle
    /\ NodeIdle
    /\ ParamIdle

\* Failed that looks at the error only and takes a Fatal status for a success
Failed_ErrorOnly(status) == status \in {"Error", "Skipped"}

\* the statuses that make the dependents of a vertex skipped
Failed(status) == status \in {"Fatal", "Error", "Skipped"}

\* some out-edge target of v has failed or was skipped
DependencyFailed(v) == \E e \in outEdges : e[1] = v /\ Failed(result[e[2]])

\* Apply is called in an Apply run when Check asks for a change
WantsApply(check) == stage = "Apply" /\ check = "WillChange"

\* the status of a vertex whose task ran: that of Check, or of Apply after it
Execute(check, applyOK) ==
    IF ~WantsApply(check) THEN check
    ELSE IF applyOK THEN "Applied"
    ELSE "Error"

\* the Finished event of v: Skipped after a failed dependency, else the status
\* of its task
Complete(v, check, applyOK) ==
    /\ pc = "returned"
    /\ stage \in Stages
    /\ v \in started \ finished
    /\ result' = result @@
            (v :> IF DependencyFailed(v) THEN "Skipped" ELSE Execute(check, applyOK))
    /\ applyCalled' =
            IF ~DependencyFailed(v) /\ WantsApply(check) THEN applyCalled \cup {v}
            ELSE applyCalled
    /\ finished' = finished \cup {v}
    /\ UNCHANGED <<verts, value, outEdges, visited, errs, groupMap, groupEdges, err,
                   pc, started, stage, userVars, nodeVars, paramVars, xrefs>>

NextRun ==
    \/ \E v \in Universe : Start(v)
    \/ \E v \in Universe, check \in CheckOutcomes, applyOK \in BOOLEAN :
            Complete(v, check, applyOK)

SpecRun == InitSched /\ [][NextRun]_vars

(***************************************************************************)
(* getXrefs on a vertex with a list of lookup calls, repeated ones too.    *)
(***************************************************************************)
\* what a lookup call can address: a vertex by name, or one inside a module
CallPaths ==
    {<<n>> : n \in Segs} \cup {<<m, n>> : m \in {x \in Segs : IsModuleSeg(x)}, n \in Segs}

SeqsUpTo(S, k) == UNION {[1..n -> S] : n \in 0..k}

\* graphs in which one vertex makes lookup calls
InitXref ==
    \E V \in Trees(MaxVertices) :
        \E v \in V, calls \in SeqsUpTo(CallPaths, MaxCalls) :
            InitRun(V, [w \in V \cup {RootID} |->
                            ParseNode("", <<>>, <<>>, IF w = v THEN calls ELSE <<>>)])

DoXrefs(v) ==
    /\ pc = "transform"
    /\ xrefs = NoXrefs
    /\ v \in verts \ {RootID}
    /\ value[v].lookups # <<>>
    /\ LET r == getXrefs(v, value[v])
       IN  xrefs' = [at |-> v, deps |-> r.deps, err |-> r.err]
    /\ UNCHANGED <<graphVars, userVars, nodeVars, paramVars, runVars>>

NextXref == \E v \in Universe : DoXrefs(v)

SpecXref == InitXref /\ [][NextXref]_vars

(***************************************************************************)
(* Properties of ResolveDependencies.                                      *)
(***************************************************************************)
\* the vertices whose parse node has group g
Members(g) == {v \in verts \ {RootID} : value[v].parse /\ value[v].group = g}

\* a precedes b in the ascending ID order of group g, with no member between
AdjacentMembers(g, a, b) ==
    /\ a \in Members(g)
    /\ b \in Members(g)
    /\ IDLess(a, b)
    /\ ~\E c \in Members(g) : IDLess(a, c) /\ IDLess(c, b)

\* ResolveDependencies has returned a nil error
Resolved == pc = "returned" /\ err = NoError

\* C1: two vertices of one group never run at the same time and start in
\* ascending ID order: when the larger one has started, the smaller one has
\* finished.
C1_GroupRunsOneAtATime ==
    \A g \in GroupNames : \A a, b \in Members(g) :
        (IDLess(a, b) /\ b \in started) => a \in finished

\* C2: after ResolveDependencies, every member of a group has a directed path
\* to the member before it in ascending ID order.
C2_GroupPathToPrevious ==
    Resolved =>
        \A g \in GroupNames : \A a, b \in verts :
            AdjacentMembers(g, a, b) => HasPath(outEdges, b, a)

\* C3: the graph a successful ResolveDependencies returns has no directed cycle.
C3_ResolvedGraphAcyclic == Resolved => ~HasCycle(outEdges)

\* the members of g are siblings of one another
AllSiblings(g) == \A a, b \in Members(g) : AreSiblingIDs(a, b)

\* the edges the group pass connected for group g
ConnectedFor(g) == IF g \in DOMAIN groupEdges THEN groupEdges[g] ELSE {}

\* C9: for a group whose members are all siblings the group pass connects
\* exactly the edges from each member to the member before it in ascending ID
\* order: k-1 edges for k members, none reversed, none between other pairs.
C9_SiblingGroupChain ==
    (pc = "returned" /\ errs = {}) =>
        \A g \in GroupNames :
            AllSiblings(g) =>
                /\ ConnectedFor(g) =
                       {<<b, a>> : a \in Members(g), b \in Members(g)}
                           \cap {e \in verts \X verts : AdjacentMembers(g, e[2], e[1])}
                /\ Members(g) # {} => Cardinality(ConnectedFor(g)) = Cardinality(Members(g)) - 1
                /\ ConnectedFor(g) \subseteq outEdges

\* C9 witness: a group of three siblings has been chained
C9_Witness ==
    /\ pc = "returned"
    /\ errs = {}
    /\ \E g \in GroupNames :
        /\ Cardinality(Members(g)) = 3
        /\ AllSiblings(g)
        /\ Cardinality(ConnectedFor(g)) = 2

\* the scopes getNearestAncestor walks from id: id, its parent, ..., below root
RECURSIVE Scopes(_)
Scopes(id) ==
    IF IsRoot(id) \/ id = EmptyID \/ id = DotID THEN <<>>
    ELSE <<id>> \o Scopes(ParentID(id))

\* the IDs probed for name from id, nearest scope first
Probes(id, name) == [i \in DOMAIN Scopes(id) |-> SiblingID(Scopes(id)[i], name)]

\* the names a reference may carry
RefNames == Segs \cup {ParamPrefix \o n : n \in ParamNames}

\* C7 as stated: getNearestAncestor returns the first probed ID that exists
\* with a parse-node value, and reports not-found only if there is none.
C7_FirstParseNodeHit ==
    \A id \in verts, name \in RefNames :
        LET probes == Probes(id, name)
            hits == {i \in DOMAIN probes : Get(probes[i]) /\ value[probes[i]].parse}
        IN  getNearestAncestor(id, name) =
                IF hits = {} THEN NotFound ELSE [id |-> probes[MinOf(hits)], ok |-> TRUE]

\* C7 amended: getNearestAncestor stops at the first probed ID that exists; it
\* returns that ID if its value is a parse node and reports not-found if it is
\* not, or if no probed ID exists.
C7_FirstExistingHit ==
    \A id \in verts, name \in RefNames :
        LET probes == Probes(id, name)
            hits == {i \in DOMAIN probes : Get(probes[i])}
        IN  getNearestAncestor(id, name) =
                IF hits = {} THEN NotFound
                ELSE IF value[probes[MinOf(hits)]].parse
                    THEN [id |-> probes[MinOf(hits)], ok |-> TRUE]
                ELSE NotFound

\* C7 witness: a visited vertex has a depends entry whose nearest definition
\* is no parse node and shadows a parse node of the outer scope, and the
\* entry did not resolve
C7_Witness ==
    \E v \in visited \ {RootID} :
        /\ value[v].parse
        /\ \E i \in DOMAIN value[v].depends :
            LET probes == Probes(v, value[v].depends[i])
            IN  /\ Len(probes) = 2
                /\ Get(probes[1])
                /\ ~value[probes[1]].parse
                /\ Get(probes[2])
                /\ value[probes[2]].parse
                /\ \E e \in errs : e.id = v /\ e.err.kind = "nonexistent vertices in edges"

\* the references of vertex v that do not resolve
UnresolvedDepends(v) ==
    {i \in DOMAIN value[v].depends : ~getNearestAncestor(v, value[v].depends[i]).ok}

UnresolvedParams(v) ==
    {i \in DOMAIN value[v].params :
        ~getNearestAncestor(v, ParamPrefix \o value[v].params[i]).ok}

UnresolvedLookups(v) ==
    {i \in DOMAIN value[v].lookups : ~VertexSplitTraverse(value[v].lookups[i], v).ok}

ParseVertices == {v \in verts \ {RootID} : value[v].parse}

\* C6: after a successful ResolveDependencies every vertex has a direct edge to
\* the vertex each of its depends entries, param calls and lookup calls
\* resolved to.
C6_DependencyClosure ==
    Resolved =>
        \A v \in ParseVertices :
            /\ \A i \in DOMAIN value[v].depends :
                <<v, getNearestAncestor(v, value[v].depends[i]).id>> \in outEdges
            /\ \A i \in DOMAIN value[v].params :
                <<v, getNearestAncestor(v, ParamPrefix \o value[v].params[i]).id>> \in outEdges
            /\ \A i \in DOMAIN value[v].lookups :
                <<v, VertexSplitTraverse(value[v].lookups[i], v).id>> \in outEdges

\* C6 witness: resolution succeeded on a graph in which a vertex inside a
\* module refers to a vertex of the enclosing scope
C6_Witness ==
    /\ Resolved
    /\ \E v \in ParseVertices :
        \E i \in DOMAIN value[v].params :
            LET t == getNearestAncestor(v, ParamPrefix \o value[v].params[i])
            IN  t.ok /\ ~AreSiblingIDs(v, t.id) /\ <<v, t.id>> \in outEdges

\* no scope enclosing v has a vertex called name
Undefined(v, name) == \A i \in DOMAIN Probes(v, name) : ~Get(Probes(v, name)[i])

\* the error recorded for vertex v
ErrorAt(v) == {e.err : e \in {f \in errs : f.id = v}}

\* C8: ResolveDependencies returns an error whenever a vertex has a depends
\* entry, a param name or a lookup call that does not resolve, and a nil error
\* only if every reference resolved; a vertex with an undefined depends entry
\* fails with "nonexistent vertices in edges", one with an undefined param
\* (and resolvable depends) with "unknown parameter".
C8_UnresolvedIsFatal ==
    pc \in {"groups", "returned"} =>
        /\ \A v \in ParseVertices :
            /\ (\E i \in DOMAIN value[v].depends : Undefined(v, value[v].depends[i]))
                   => /\ err # NoError
                      /\ v \in visited => ErrorAt(v) =
                             {Error("nonexistent vertices in edges",
                                    value[v].depends[MinOf(UnresolvedDepends(v))])}
            /\ (\E i \in DOMAIN value[v].params :
                    Undefined(v, ParamPrefix \o value[v].params[i]))
                   => /\ err # NoError
                      /\ (v \in visited /\ UnresolvedDepends(v) = {}) =>
                             \A e \in ErrorAt(v) : e.kind = "unknown parameter"
                      /\ v \in visited => ErrorAt(v) # {}
            /\ UnresolvedLookups(v) # {} => err # NoError
        /\ err = NoError =>
               \A v \in ParseVertices :
                   /\ UnresolvedDepends(v) = {}
                   /\ UnresolvedParams(v) = {}
                   /\ UnresolvedLookups(v) = {}
        /\ errs # {} => err \in {e.err : e \in errs}

\* C8 witness: the load failed on a depends entry no scope defines
C8_Witness ==
    /\ pc = "returned"
    /\ err.kind = "nonexistent vertices in edges"
    /\ \E v \in ParseVertices :
        \E i \in DOMAIN value[v].depends : Undefined(v, value[v].depends[i])

(***************************************************************************)
(* Properties of the user task.                                            *)
(***************************************************************************)
\* Check returned this level, with a nil error
Reports(r, level) == r # Nil /\ ~r.panic /\ r.err = "nil" /\ r.status.WarningLevel = level

\* C4: when Check reports WillChange and Apply then succeeds, the Check after
\* it reports NoChange.
C4_CheckApplyCheckIdempotent ==
    (phase = "rechecked" /\ Reports(check1, "WillChange") /\ applied.err = "nil")
        => Reports(check2, "NoChange")

\* the case of C5: the task wants the user present, names no uid, the system
\* does not know the user, and the gid, if set, exists
C5_Case(sys) ==
    /\ u.State = StatePresent
    /\ u.UID = ""
    /\ Lookup(sys, u.Username).err = "UnknownUserError"
    /\ u.GID # "" => LookupGroupID(sys, u.GID) = "nil"

\* C5: in that case Check returns no error, WillChange and the one difference
\* "user": absent -> user USERNAME; Apply calls AddUser once with Username,
\* never DelUser, and returns no error when AddUser succeeds.
C5_AbsentUserIsAdded ==
    /\ (phase = "checked" /\ C5_Case(system)) =>
        /\ Reports(check1, "WillChange")
        /\ DOMAIN check1.status.Differences = {"user"}
        /\ check1.status.Differences["user"] =
               [Original |-> <<"absent">>, Current |-> <<"user", u.Username>>]
    /\ (phase \in {"applied", "checked-applied"} /\ C5_Case(applied.before)) =>
        /\ Len(applied.calls) = 1
        /\ applied.calls[1].op = "AddUser"
        /\ applied.calls[1].name = u.Username
        /\ called = applied.calls
        /\ AddUserError(applied.before, u.Username, SetUserAddOptions(u)) = "nil"
               => applied.err = "nil"

\* C5 witness: Check asked for the change and Apply added the user
C5_Witness ==
    /\ phase = "checked-applied"
    /\ C5_Case(applied.before)
    /\ Reports(check1, "WillChange")
    /\ applied.err = "nil"
    /\ \E r \in system.users : r.Username = u.Username

(***************************************************************************)
(* Properties of node.Node.                                                *)
(***************************************************************************)
\* C10: the node WithValue returns has the given value and the ID its source
\* had at the call, and shares no state with it: through every handle one
\* sees exactly the attributes given through that handle, whatever was
\* assigned through the others.
C10_WithValueSharesNothing ==
    \A h \in DOMAIN ptr : Deref(h) = own[h].attrs

\* C10 witness: a node derived by WithValue and its source differ in ID after
\* an assignment to one of them
C10_Witness ==
    \E h, k \in DOMAIN ptr :
        /\ own[k].from = h
        /\ Deref(k).value # Deref(h).value
        /\ Deref(k).ID # Deref(h).ID
(***************************************************************************)
(* Properties of node.Node, continued.                                     *)
(***************************************************************************)
\* the node the last handle points to after a step that made a handle
Produced == heap'[ptr'[Len(ptr')]]

\* C11: every node that New or WithValue produces has Group equal to the
\* group its value reports (Group() of a Groupable when non-empty, "" for any
\* other value), whatever the Group of the node it was derived from
C11_GroupInferred ==
    [][Len(ptr') > Len(ptr) => Produced.Group = GroupOf(Produced.value)]_vars

\* C11 witness: a node derived by WithValue with a value that reports no group
\* from a node whose Group is "somegroup" has the empty Group
C11_Witness ==
    \E h, k \in DOMAIN ptr :
        /\ own[k].from = h
        /\ Deref(h).value = Groupable("somegroup")
        /\ Deref(h).Group = "somegroup"
        /\ GroupOf(Deref(k).value) = ""
        /\ Deref(k).Group = ""
(***************************************************************************)
(* Properties of param.Preparer.                                           *)
(***************************************************************************)
\* C12: Prepare returns a Param holding the call-site value whenever the
\* renderer reports one as present (zero values included); otherwise a Param
\* holding Default when Default is set (zero values such as "" included); it
\* fails with "param is required" exactly when no value is present and
\* Default is not set
C12_ParamPrecedence ==
    prepared # NotPrepared =>
        /\ renderer.present =>
                prepared = [task |-> Param(renderer.val), err |-> "nil"]
        /\ (~renderer.present /\ preparer.Default # HclNil) =>
                prepared = [task |-> Param(preparer.Default), err |-> "nil"]
        /\ prepared.err = "param is required"
                <=> (~renderer.present /\ preparer.Default = HclNil)
        /\ prepared.err \in {"nil", "param is required"}
        /\ prepared.err = "nil" <=> ~prepared.task.isNil

\* C12 witness: no call-site value and Default set to the empty string give a
\* Param holding the empty string
C12_Witness ==
    /\ prepared # NotPrepared
    /\ ~renderer.present
    /\ preparer.Default = HclString("")
    /\ prepared.task = Param(HclString(""))
(***************************************************************************)
(* Properties of a Plan or Apply run.                                      *)
(***************************************************************************)
\* C13: in every Plan or Apply run the Started event of a vertex comes strictly
\* before its Finished event, and for every edge v1 -> v2 of the graph that
\* ResolveDependencies returned, Finished(v2) comes before Started(v1)
C13_SchedulerOrdering ==
    [][/\ \A v \in started' \ started :
            /\ v \notin finished'
            /\ \A e \in outEdges : e[1] = v => e[2] \in finished
       /\ \A v \in finished' \ finished : v \in started]_vars

\* C13 witness: both ends of an edge that a depends entry or the group pass
\* added have started and finished
C13_Witness ==
    /\ stage \in Stages
    /\ \E e \in outEdges \ ContainmentEdges(verts) :
        /\ e[1] # e[2]
        /\ {e[1], e[2]} \subseteq started \cap finished

\* the vertices that finished with a non-nil error or with status Fatal
FailedVertices == {v \in finished : result[v] \in {"Fatal", "Error"}}

\* w depends on v, directly or transitively
DependsOn(w, v) == w # v /\ HasPath(outEdges, w, v)

\* nothing is running and nothing can start
Quiescent == started = finished /\ \A v \in verts : ~Eligible(v)

\* C14: when a vertex V finishes with a non-nil error or with status Fatal,
\* every vertex that transitively depends on V never has Apply called and is
\* reported Skipped, while every vertex with no path to a failed vertex is
\* scheduled and runs to completion (it is not skipped, and the run does not
\* come to rest before it has finished)
C14_FailurePropagation ==
    stage \in Stages =>
        /\ \A v \in FailedVertices, w \in verts :
                DependsOn(w, v) =>
                    /\ w \notin applyCalled
                    /\ w \in finished => result[w] = "Skipped"
        /\ \A w \in finished :
                (\A v \in FailedVertices : ~DependsOn(w, v)) => result[w] # "Skipped"
        /\ Quiescent => finished = verts

\* C14 witness: an Apply run has come to rest with a vertex that reported Fatal,
\* a vertex skipped for depending on it, and a vertex other than root and
\* with no path to the failed one that was applied
C14_Witness ==
    /\ stage = "Apply"
    /\ Quiescent
    /\ \E v, w, x \in verts \ {RootID} :
        /\ result[v] = "Fatal"
        /\ DependsOn(w, v)
        /\ result[w] = "Skipped"
        /\ x \notin {v, w}
        /\ ~HasPath(outEdges, x, v)
        /\ result[x] = "Applied"
        /\ x \in applyCalled

(***************************************************************************)
(* Properties of ResolveDependencies, continued.                           *)
(***************************************************************************)
\* C15: when the function fails for some vertex, so that Transform reports an
\* error, ResolveDependencies changes the graph no further (it connects no
\* group edges for the groups collected so far) and returns that error
C15_ErrorAbortsLoad ==
    [][(pc = "groups" /\ errs # {}) =>
            /\ outEdges' = outEdges
            /\ \A g \in DOMAIN groupEdges' : groupEdges'[g] = {}
            /\ err' = err
            /\ err' # NoError]_vars

\* Transform has returned without error
Transformed == pc \in {"groups", "returned"} /\ err = NoError

\* the IDs of a list, as a set
Elements(ids) == {ids[i] : i \in DOMAIN ids}

\* C16: for every interleaving of the Transform workers, when Transform
\* completes without error groupMap[g] holds each vertex other than root whose
\* parse node has group g exactly once and no other ID, and groupMap has no
\* entry for the empty group
C16_NoLostRegistration ==
    Transformed =>
        /\ "" \notin DOMAIN groupMap
        /\ DOMAIN groupMap = {g \in GroupNames : Members(g) # {}}
        /\ \A g \in DOMAIN groupMap :
            /\ Elements(groupMap[g]) = Members(g)
            /\ Len(groupMap[g]) = Cardinality(Members(g))

\* C16 witness: Transform has returned without error and three workers have
\* registered their vertices in one group, not in ascending order of ID
C16_Witness ==
    /\ Transformed
    /\ \E g \in DOMAIN groupMap :
        /\ Len(groupMap[g]) = 3
        /\ groupMap[g] # SortStrings(groupMap[g])

XrefTarget(v, i) == VertexSplitTraverse(value[v].lookups[i], v)

\* the targets of the lookup calls of v
XrefTargets(v) == {XrefTarget(v, i).id : i \in DOMAIN value[v].lookups}

\* the ancestors-or-self of t below root that are siblings of v (at most one)
PeersOf(v, t) == {a \in {SubSeq(t, 1, k) : k \in 2..Len(t)} : AreSiblingIDs(v, a)}

\* how often x occurs in a list
Count(ids, x) == Cardinality({i \in DOMAIN ids : ids[i] = x})

\* C18: when every lookup call of V resolves, getXrefs yields, for each target
\* T however often V refers to it, T once and, when there is one, once the
\* ancestor-or-self of T below root that is a sibling of V, and nothing else;
\* when a call does not resolve it returns an empty list with an error
C18_Xrefs ==
    xrefs # NoXrefs =>
        LET v == xrefs.at
        IN  IF \A i \in DOMAIN value[v].lookups : XrefTarget(v, i).ok
                THEN /\ xrefs.err = NoError
                     /\ \A x \in Universe :
                            Count(xrefs.deps, x) =
                                Cardinality({t \in XrefTargets(v) : t = x})
                                + Cardinality({t \in XrefTargets(v) : x \in PeersOf(v, t)})
            ELSE /\ xrefs.deps = <<>>
                 /\ xrefs.err.kind = "dependency generator: unresolvable call"

\* C18 witness: a vertex refers twice to a target inside a sibling module and
\* getXrefs yields the target and the module, once each
C18_Witness ==
    /\ xrefs # NoXrefs
    /\ Len(value[xrefs.at].lookups) = 2
    /\ XrefTarget(xrefs.at, 1).ok
    /\ XrefTarget(xrefs.at, 1) = XrefTarget(xrefs.at, 2)
    /\ ~AreSiblingIDs(xrefs.at, XrefTarget(xrefs.at, 1).id)
    /\ Len(xrefs.deps) = 2
    /\ xrefs.deps[1] = XrefTarget(xrefs.at, 1).id
    /\ AreSiblingIDs(xrefs.at, xrefs.deps[2])

(***************************************************************************)
(* Properties of the user task, continued.                                 *)
(***************************************************************************)
\* the step is a call of Check
CheckStep == phase' \in {"checked", "rechecked"} /\ phase' # phase

\* C19: for every configuration and system state Check calls only Lookup,
\* LookupID and LookupGroupID, never AddUser or DelUser, and leaves the users
\* of the system as they were
C19_CheckReadOnly ==
    [][CheckStep =>
            /\ \A i \in DOMAIN CheckCalls(u, system) :
                    CheckCalls(u, system)[i].op \in {"Lookup", "LookupID", "LookupGroupID"}
            /\ system'.users = system.users
            /\ system' = system
            /\ called' = called]_vars

\* C19 witness: Check has found that a user is to be added, after looking up
\* the name, the uid and the group, and the user is still not on the system
C19_Witness ==
    /\ phase = "checked"
    /\ Reports(check1, "WillChange")
    /\ u.State = StatePresent
    /\ Len(CheckCalls(u, system)) = 3
    /\ \A r \in system.users : r.Username # u.Username
    /\ called = <<>>

\* C20: Apply calls AddUser or DelUser only if Check, on the same configuration
\* and system state, reports WillChange with a nil error; it makes at most one
\* such call, AddUser only when State is present and DelUser only when State
\* is absent
C20_ApplyOnlyWhereCheckAsks ==
    applied # Nil =>
        LET made == Mutating(applied.calls)
        IN  /\ made # <<>> => Reports(Check(u, applied.before), "WillChange")
            /\ Len(made) <= 1
            /\ \A i \in DOMAIN made :
                /\ made[i].op = "AddUser" => u.State = StatePresent
                /\ made[i].op = "DelUser" => u.State = StateAbsent

\* a call returned a non-nil error
Errored(r) == r # Nil /\ r.err # "nil"

\* on this system the task fails before any call that changes the system:
\* Lookup reports ErrUnsupported, or State is neither present nor absent
FailsEarly(sys) ==
    \/ Lookup(sys, u.Username).err = "ErrUnsupported"
    \/ u.State \notin {StatePresent, StateAbsent}

\* C21: whenever Check or Apply returns a non-nil error the status it returns
\* has WarningLevel Fatal; and when Lookup reports ErrUnsupported or State is
\* neither present nor absent, both return an error and neither calls AddUser
\* or DelUser
C21_ErrorsAreFatal ==
    /\ (check1 # Nil /\ ~check1.panic /\ check1.err # "nil")
            => check1.status.WarningLevel = "Fatal"
    /\ (check2 # Nil /\ ~check2.panic /\ check2.err # "nil")
            => check2.status.WarningLevel = "Fatal"
    /\ Errored(applied) => applied.status.WarningLevel = "Fatal"
    /\ (phase = "checked" /\ FailsEarly(system)) =>
            /\ ~check1.panic
            /\ Errored(check1)
            /\ Mutating(CheckCalls(u, system)) = <<>>
            /\ called = <<>>
    /\ (applied # Nil /\ FailsEarly(applied.before)) =>
            /\ Errored(applied)
            /\ Mutating(applied.calls) = <<>>
            /\ called = <<>>

\* C21 witness: Apply has called AddUser, which failed, and returned its error
\* with a Fatal status
C21_Witness ==
    /\ Errored(applied)
    /\ Mutating(applied.calls) # <<>>
    /\ applied.status.WarningLevel = "Fatal"

(***************************************************************************)
(* Properties of ResolveDependencies: determinism and the group pass.      *)
(***************************************************************************)
\* the vertices the function registers in group g, as some list
Registered(g) == SeqOfIDs({v \in verts : ResolveVertex(v).group = g})

\* the edges of the input graph, of the function at every vertex and of the
\* group loop over the registered vertices: a function of the input alone
EdgesOfInput ==
    ResolvedEdges([g \in {ResolveVertex(v).group : v \in verts} \ {""} |-> Registered(g)])

\* C22: for a fixed input graph, whatever the order in which the Transform
\* workers ran and appended to groupMap, ResolveDependencies returns the same
\* set of edges, once the function has run at every vertex
C22_EdgesDeterministic ==
    (pc = "returned" /\ visited = verts) => outEdges = EdgesOfInput

\* C22 witness: the workers appended the members of a group in another order
\* than that of their IDs, and the group loop has connected them
C22_Witness ==
    /\ pc = "returned"
    /\ visited = verts
    /\ \E g \in DOMAIN groupMap :
        /\ groupMap[g] # SortStrings(groupMap[g])
        /\ groupEdges[g] \ ContainmentEdges(verts) # {}
        /\ groupEdges[g] \subseteq outEdges

\* C23: wherever the members of a group are in the containment tree, every edge
\* the group pass adds, after retargeting, joins two different vertices
C23_GroupPassNoSelfLoop ==
    pc = "returned" =>
        \A g \in DOMAIN groupEdges : \A e \in groupEdges[g] : e[1] # e[2]

(***************************************************************************)
(* Properties of the user task: panics and the fields of the status.       *)
(***************************************************************************)
\* C24: for every configuration with UID set and every result of Lookup and
\* LookupID, Check reaches a return statement: it does not dereference a nil
\* user record when it compares the record found by name with that found by
\* uid
C24_CheckNeverPanics ==
    /\ check1 # Nil => ~check1.panic
    /\ check2 # Nil => ~check2.panic

\* the system is as the task wants it: the user (with the uid, when one is
\* set) is there for State present, and neither the name nor the uid is in
\* use for State absent
Matches(sys) ==
    IF u.State = StatePresent
        THEN \E r \in sys.users :
                r.Username = u.Username /\ (u.UID # "" => r.Uid = u.UID)
    ELSE /\ u.State = StateAbsent
         /\ \A r \in sys.users :
                r.Username # u.Username /\ (u.UID # "" => r.Uid # u.UID)

\* the fields of a status Check returned on system sys agree
Consistent(r, sys) ==
    (r # Nil /\ ~r.panic) =>
        /\ r.status.WillChange <=> r.status.WarningLevel = "WillChange"
        /\ r.status.WillChange <=> DOMAIN r.status.Differences = {"user"}
        /\ r.status.WarningLevel \in {"NoChange", "Fatal"}
                => DOMAIN r.status.Differences = {}
        /\ r.status.WarningLevel = "NoChange" => Matches(sys)

\* C25: in every status Check returns, the WillChange flag is set if and only
\* if WarningLevel is WillChange, and if and only if the status has the one
\* difference "user"; a NoChange or Fatal status has no difference; and
\* NoChange is returned only when the system is already as the task wants it
C25_StatusFieldsConsistent ==
    /\ phase = "checked" => Consistent(check1, system)
    /\ phase = "rechecked" => Consistent(check2, system)
====
